---------------------------- MODULE Spec2Model ----------------------------
(***************************************************************************)
(* A model of nipsi: the Bloom filter of nipsi/multiclient.py and the five *)
(* non-interactive set intersection schemes of nipsi/twoclient.py and      *)
(* nipsi/multiclient.py.                                                   *)
(*                                                                         *)
(* The library calls are modelled symbolically.  AES-CBC under a fixed key *)
(* and IV is an injective map on block-aligned input, so its output is the *)
(* term <<"AES-CBC", key, iv, padded>>.  SHA-256, AES-GCM and the curve's  *)
(* hash-to-point are terms too.  The curve group is the free module over   *)
(* Z_q generated by the points the code draws or hashes to: a point is the *)
(* vector of its exponents, the group operation adds vectors, and ** by a  *)
(* scalar scales them.  Scalars are computed in Z_q for a small prime q.   *)
(***************************************************************************)
EXTENDS Integers, Sequences, FiniteSets, TLC

VARIABLES
    hseed,      \* which member of the hash family stands for mmh3
    bfA,        \* a BloomFilter object
    bfB,        \* a second BloomFilter object
    added,      \* ghost: the items added to bfA and to bfB so far
    bfOut,      \* the value of the last bfA.union(bfB) / bfA.intersection(bfB)
    self,       \* the scheme object's attributes
    gid,        \* the group identifier of the session
    usks,       \* the list setup returned
    pt_sets,    \* the plaintext set each client encrypted
    ct_sets,    \* the ciphertext each client's encrypt returned
    result,     \* the call that returned last, setup or eval, and its outcome
    pc          \* "new", "keyed" after setup, "failed" when it raised,
                \* "done" after eval

bfVars == <<bfA, bfB, added, bfOut>>

schemeVars == <<self, gid, usks, pt_sets, ct_sets, result, pc>>

vars == <<hseed, bfA, bfB, added, bfOut, self, gid, usks, pt_sets, ct_sets, result, pc>>

---------------------------------------------------------------------------
(* Bounds of the model *)

MaxM == 9          \* Bloom filter widths 1..MaxM
MaxK == 2          \* hash counts 1..MaxK
MaxSeed == 1       \* hash family members 0..MaxSeed
MaxGid == 2        \* group identifiers 1..MaxGid, as 16 bytes
MaxPtSet == 3      \* a two-client plaintext set holds at most MaxPtSet elements
MaxClients == 3    \* setup is called for 1..MaxClients clients
MaxThreshold == 3  \* Threshold.setup is called with thresholds 1..MaxThreshold
MaxRand == 2       \* the values one os.urandom or group.random(G) call may draw
MaxBits == 4       \* CardinalityEfficient.setup is called with filters of up to MaxBits bits

(* The byte strings handed to the library as set elements *)
Plaintexts == { <<97>>, <<97, 0>>, <<98>>, <<99>> }

---------------------------------------------------------------------------
(* Integer helpers *)

RECURSIVE Pow(_, _)
Pow(b, e) == IF e = 0 THEN 1 ELSE b * Pow(b, e - 1)

RECURSIVE SumOver(_, _)
(* the sum of f[x] for x in the finite set S *)
SumOver(f, S) ==
    IF S = {} THEN 0
    ELSE LET x == CHOOSE y \in S : TRUE IN f[x] + SumOver(f, S \ {x})

(* bit s of a byte: (byte & (1 << s)) >> s *)
BitOf(byte, s) == (byte \div Pow(2, s)) % 2

RECURSIVE ByteAnd(_, _)
(* Python's a & b on non-negative integers *)
ByteAnd(a, b) ==
    IF a = 0 \/ b = 0 THEN 0
    ELSE (a % 2) * (b % 2) + 2 * ByteAnd(a \div 2, b \div 2)

RECURSIVE ByteOr(_, _)
(* Python's a | b on non-negative integers *)
ByteOr(a, b) ==
    IF a = 0 THEN b
    ELSE IF b = 0 THEN a
    ELSE (IF a % 2 = 1 \/ b % 2 = 1 THEN 1 ELSE 0) + 2 * ByteOr(a \div 2, b \div 2)

RECURSIVE ToBytes(_, _)
(* int.to_bytes(n, 'big') of i, for i that fits *)
ToBytes(i, n) == IF n = 0 THEN <<>> ELSE ToBytes(i \div 256, n - 1) \o <<i % 256>>

(* int.bit_length *)
BitLength(n) == CHOOSE b \in 0..32 : Pow(2, b) > n /\ (b = 0 \/ Pow(2, b - 1) <= n)

---------------------------------------------------------------------------
(* A raised exception, as the value of the call that raised it *)
Raise(name) == [error |-> name]

IsError(v) == "error" \in DOMAIN v

---------------------------------------------------------------------------
(* BloomFilter.BitString *)

(* __init__: l bits in a zeroed bytearray of (l + 7) // 8 bytes *)
BitString(l) == [l |-> l, bs |-> [i \in 0..(((l + 7) \div 8) - 1) |-> 0]]

BitStringGetItem(b, key) ==
    LET byte == b.bs[key \div 8]
        shift == key % 8
    IN  BitOf(byte, shift)

(* __setitem__ as it would be with the byte assigned instead of ORed *)
BitStringSetItemAssign(b, key, value) ==
    LET byte_index == key \div 8
        shift == key % 8
    IN  [b EXCEPT !.bs[byte_index] = Pow(2, shift)]

(* __setitem__ ORs the bit in whatever value is *)
BitStringSetItem(b, key, value) ==
    LET byte_index == key \div 8
        shift == key % 8
    IN  [b EXCEPT !.bs[byte_index] = ByteOr(@, Pow(2, shift))]

(* __and__ and __or__ write the bytes range(l // 8) of a fresh BitString;
   an assert stops them when the lengths differ *)
BitStringAnd(a, b) ==
    IF a.l # b.l THEN Raise("AssertionError")
    ELSE [BitString(a.l) EXCEPT
            !.bs = [i \in DOMAIN @ |->
                      IF i < a.l \div 8 THEN ByteAnd(a.bs[i], b.bs[i]) ELSE @[i]]]

BitStringOr(a, b) ==
    IF a.l # b.l THEN Raise("AssertionError")
    ELSE [BitString(a.l) EXCEPT
            !.bs = [i \in DOMAIN @ |->
                      IF i < a.l \div 8 THEN ByteOr(a.bs[i], b.bs[i]) ELSE @[i]]]

RECURSIVE BitWeight(_)
(* bit_weights[byte] is the number of one bits of byte *)
BitWeight(byte) == IF byte = 0 THEN 0 ELSE (byte % 2) + BitWeight(byte \div 2)

BitStringWeight(b) == SumOver([i \in DOMAIN b.bs |-> BitWeight(b.bs[i])], DOMAIN b.bs)

---------------------------------------------------------------------------
(* BloomFilter *)

RECURSIVE MixPow(_, _)
(* (2 * seed + 3) ** e, modulo 2 ** 15 *)
MixPow(seed, e) ==
    IF e = 0 THEN 1
    ELSE LET half == MixPow(seed, e \div 2)
             sq == (half * half) % 32768
         IN  IF e % 2 = 0 THEN sq ELSE (sq * (2 * seed + 3)) % 32768

RECURSIVE MixRange(_, _, _, _)
(* the rolling hash h -> h * (2 * seed + 3) + byte + 1 over the bytes
   lo..hi, started from 0 *)
MixRange(seed, bytes, lo, hi) ==
    IF lo > hi THEN 0
    ELSE IF lo = hi THEN bytes[lo] + 1
    ELSE LET mid == (lo + hi) \div 2
         IN  (MixRange(seed, bytes, lo, mid) * MixPow(seed, hi - mid)
                + MixRange(seed, bytes, mid + 1, hi)) % 32768

(* the stand-in for mmh3.hash: the rolling hash of the bytes started from
   the seed, one hash function per seed *)
Mix(seed, bytes) ==
    (seed * MixPow(seed, Len(bytes)) + MixRange(seed, bytes, 1, Len(bytes))) % 32768

(* self._h[i](y) = H(i.to_bytes(k.bit_length(), 'big') + y) % m *)
BloomHash(seed, m, k, i, y) == Mix(seed, ToBytes(i, BitLength(k)) \o y) % m

(* __init__ *)
BloomFilter(m, k) == [m |-> m, k |-> k, bs |-> BitString(m)]

(* __contains__ *)
BloomContains(seed, bf, item) ==
    \A i \in 0..(bf.k - 1) :
        BitStringGetItem(bf.bs, BloomHash(seed, bf.m, bf.k, i, item)) = 1

RECURSIVE BloomAddFrom(_, _, _, _)
BloomAddFrom(seed, bf, elem, i) ==
    IF i >= bf.k THEN bf
    ELSE BloomAddFrom(seed,
            [bf EXCEPT !.bs = BitStringSetItem(@, BloomHash(seed, bf.m, bf.k, i, elem), 1)],
            elem, i + 1)

(* add *)
BloomAdd(seed, bf, elem) == BloomAddFrom(seed, bf, elem, 0)

(* empty *)
BloomEmpty(bf) == BloomFilter(bf.m, bf.k)

(* union *)
BloomUnion(bf, other) ==
    LET bs == BitStringOr(bf.bs, other.bs)
    IN  IF IsError(bs) THEN bs
        ELSE [BloomEmpty(bf) EXCEPT !.bs = bs]

(* intersection *)
BloomIntersection(bf, other) ==
    LET bs == BitStringAnd(bf.bs, other.bs)
    IN  IF IsError(bs) THEN bs
        ELSE [BloomEmpty(bf) EXCEPT !.bs = bs]

(* weight *)
BloomWeight(bf) == BitStringWeight(bf.bs)

---------------------------------------------------------------------------
(* The parts of the state a specification does not use *)

Unset == 0 - 1

BFIdle ==
    /\ bfA = BloomFilter(1, 1)
    /\ bfB = BloomFilter(1, 1)
    /\ added = [A |-> {}, B |-> {}]
    /\ bfOut = [op |-> "none"]

SchemeIdle ==
    /\ self = [scheme |-> "none"]
    /\ gid = <<>>
    /\ usks = <<>>
    /\ pt_sets = <<>>
    /\ ct_sets = <<>>
    /\ result = [op |-> "none"]
    /\ pc = "new"

---------------------------------------------------------------------------
(* The Bloom filter on its own: two filters are built and filled, and then
   combined once *)

Seeds == 0..MaxSeed

InitBF ==
    /\ hseed \in Seeds
    /\ bfA \in {BloomFilter(m, k) : m \in 1..MaxM, k \in 1..MaxK}
    /\ bfB \in {BloomFilter(m, k) : m \in {bfA.m, MaxM}, k \in {bfA.k, MaxK}}
    /\ added = [A |-> {}, B |-> {}]
    /\ bfOut = [op |-> "none"]
    /\ SchemeIdle

AddA(x) ==
    /\ bfOut.op = "none"
    /\ bfA' = BloomAdd(hseed, bfA, x)
    /\ added' = [added EXCEPT !.A = @ \cup {x}]
    /\ UNCHANGED <<hseed, bfB, bfOut, schemeVars>>

AddB(x) ==
    /\ bfOut.op = "none"
    /\ bfB' = BloomAdd(hseed, bfB, x)
    /\ added' = [added EXCEPT !.B = @ \cup {x}]
    /\ UNCHANGED <<hseed, bfA, bfOut, schemeVars>>

Union ==
    /\ bfOut.op = "none"
    /\ bfOut' = [op |-> "union", a |-> bfA, b |-> bfB, out |-> BloomUnion(bfA, bfB)]
    /\ UNCHANGED <<hseed, bfA, bfB, added, schemeVars>>

Intersection ==
    /\ bfOut.op = "none"
    /\ bfOut' = [op |-> "intersection", a |-> bfA, b |-> bfB,
                 out |-> BloomIntersection(bfA, bfB)]
    /\ UNCHANGED <<hseed, bfA, bfB, added, schemeVars>>

NextBF ==
    \/ \E x \in Plaintexts : AddA(x)
    \/ \E x \in Plaintexts : AddB(x)
    \/ Union
    \/ Intersection

SpecBF == InitBF /\ [][NextBF]_vars

---------------------------------------------------------------------------
(* Inputs and library calls shared by the schemes *)

(* a Python list: a function on 0..len-1 *)
ListOf(seq) == [i \in 0..(Len(seq) - 1) |-> seq[i + 1]]

ListLen(l) == Cardinality(DOMAIN l)

(* the draw-th value os.urandom(n) may return in the call-th call of one
   setup: n bytes, here all alike; two calls never return the same bytes *)
URandom(n, draw, call) == [j \in 1..n |-> 16 * draw + call]

(* the security parameters setup is called with *)
SecPars == {128}

(* 16-byte group identifiers, as the tests build them *)
Gids == {ToBytes(g, 16) : g \in 1..MaxGid}

(* the plaintext sets a client may hold *)
PtSets(max) == {S \in SUBSET Plaintexts : Cardinality(S) <= max}

(* Cipher(algorithms.AES(key), modes.CBC(iv)) *)
Cipher(key, iv) == [key |-> key, iv |-> iv]

(* encryptor.update(pt) + encryptor.finalize() on block-aligned pt *)
AesCbc(cipher, pt) == <<"AES-CBC", cipher.key, cipher.iv, pt>>

(* the zero padding of _prf, _phi and _psi *)
ZeroPad(pt) ==
    LET padding_len == 16 - (Len(pt) % 16)
    IN  pt \o [j \in 1..padding_len |-> 0]

---------------------------------------------------------------------------
(* twoclient.Cardinality (scheme 1) *)

(* setup: the values it may return *)
TCCardinalitySetup(secpar) ==
    {LET key == URandom(secpar \div 8, draw, 0) IN ListOf(<<key, key>>) :
        draw \in 1..MaxRand}

(* _prf *)
TCCardinalityPrf(cipher, pt) == AesCbc(cipher, ZeroPad(pt))

(* encrypt *)
TCCardinalityEncrypt(usk, id, pt_set) ==
    LET iv == id
        cipher == Cipher(usk, iv)
    IN  {TCCardinalityPrf(cipher, pt) : pt \in pt_set}

(* eval *)
TCCardinalityEval(cts) == Cardinality(cts[0] \cap cts[1])

InitTCC ==
    /\ hseed = 0
    /\ BFIdle
    /\ self = [scheme |-> "twoclient.Cardinality", client_count |-> 2]
    /\ gid \in Gids
    /\ usks = <<>>
    /\ pt_sets = <<>>
    /\ ct_sets = <<>>
    /\ result = [op |-> "none"]
    /\ pc = "new"

SetupTCC(secpar) ==
    /\ pc = "new"
    /\ usks' \in TCCardinalitySetup(secpar)
    /\ pc' = "keyed"
    /\ UNCHANGED <<hseed, bfVars, self, gid, pt_sets, ct_sets, result>>

EncryptTCC(i, pt_set) ==
    /\ pc = "keyed"
    /\ i \notin DOMAIN ct_sets
    /\ pt_sets' = (i :> pt_set) @@ pt_sets
    /\ ct_sets' = (i :> TCCardinalityEncrypt(usks[i], gid, pt_set)) @@ ct_sets
    /\ UNCHANGED <<hseed, bfVars, self, gid, usks, result, pc>>

EvalTCC ==
    /\ pc = "keyed"
    /\ DOMAIN ct_sets = 0..(self.client_count - 1)
    /\ result' = [op |-> "eval", value |-> TCCardinalityEval(ct_sets)]
    /\ pc' = "done"
    /\ UNCHANGED <<hseed, bfVars, self, gid, usks, pt_sets, ct_sets>>

NextTCC ==
    \/ \E secpar \in SecPars : SetupTCC(secpar)
    \/ \E i \in 0..1, pt_set \in PtSets(MaxPtSet) : EncryptTCC(i, pt_set)
    \/ EvalTCC

SpecTCC == InitTCC /\ [][NextTCC]_vars

---------------------------------------------------------------------------
(* The curve group of charm's ECGroup.

   A scalar (ZR) that setup draws with group.random(ZR) and that is used
   only as an exponent of points is kept as an indeterminate: a scalar is
   then a linear form c0 + c1*X1 + ... over Z_q, the vector of its
   coefficients.  A point (G) is the vector of its exponents over the
   points the code draws or hashes to, each exponent a form. *)

(* the group order; a small prime stands for the order of prime256v1 *)
q == 11

Zq == 0..(q - 1)

(* the indeterminates X1..XNumInd *)
NumInd == MaxClients

ZeroForm == [d \in 0..NumInd |-> 0]

(* group.init(ZR, c) *)
FormConst(c) == [d \in 0..NumInd |-> IF d = 0 THEN c % q ELSE 0]

(* the d-th scalar drawn by group.random(ZR) *)
FormVar(i) == [d \in 0..NumInd |-> IF d = i THEN 1 ELSE 0]

FormAdd(a, b) == [d \in 0..NumInd |-> (a[d] + b[d]) % q]

FormScale(a, c) == [d \in 0..NumInd |-> (a[d] * (c % q)) % q]

FormNeg(a) == [d \in 0..NumInd |-> (q - a[d]) % q]

FormSub(a, b) == FormAdd(a, FormNeg(b))

IsConstForm(a) == \A d \in 1..NumInd : a[d] = 0

(* the product of two scalars one of which is a constant *)
FormMul(a, b) ==
    CASE IsConstForm(a) -> FormScale(b, a[0])
      [] IsConstForm(b) -> FormScale(a, b[0])

RECURSIVE FormSum(_)
(* Python's sum over a list of scalars *)
FormSum(l) ==
    IF DOMAIN l = {} THEN ZeroForm
    ELSE LET last == ListLen(l) - 1
         IN  FormAdd(FormSum([i \in 0..(last - 1) |-> l[i]]), l[last])

(* the inverse of a non-zero residue *)
InvMod(a) == CHOOSE b \in 1..(q - 1) : (a * b) % q = 1

RECURSIVE PowMod(_, _)
(* pow(b, e, q) *)
PowMod(b, e) == IF e = 0 THEN 1 % q ELSE (b * PowMod(b, e - 1)) % q

(* the identity, g ** 0 *)
GOne == [l \in {} |-> ZeroForm]

(* the point a label names: the generator g, a hash-to-point value or a
   point drawn with group.random(G) *)
GPoint(kind, name) == [l \in {<<kind, name>>} |-> FormConst(1)]

(* a * b *)
GMul(a, b) ==
    LET at(v, l) == IF l \in DOMAIN v THEN v[l] ELSE ZeroForm
        sum(l) == FormAdd(at(a, l), at(b, l))
    IN  [l \in {x \in DOMAIN a \cup DOMAIN b : sum(x) # ZeroForm} |-> sum(l)]

(* a ** s for a scalar s *)
GExp(a, s) ==
    [l \in {x \in DOMAIN a : FormMul(a[x], s) # ZeroForm} |-> FormMul(a[l], s)]

(* group.hash(bytes, G) *)
GHash(bytes) == GPoint("H", bytes)

(* group.serialize and group.deserialize, of a point and of a scalar *)
Serialize(type, v) == <<type, v>>

Deserialize(b) == b[2]

RECURSIVE BytesMod(_, _, _)
(* int.from_bytes(bytes, 'big') % n, continuing from acc *)
BytesMod(bytes, n, acc) ==
    IF bytes = <<>> THEN acc % n
    ELSE BytesMod(Tail(bytes), n, (acc * 256 + Head(bytes)) % n)

(* int.from_bytes(ct, 'big') % n of an AES-CBC output: the cipher is a
   keyed permutation of the block-aligned inputs, which the sum of input,
   key and IV stands for *)
CtIntMod(ct, n) ==
    (BytesMod(ct[4], n, 0) + BytesMod(ct[2], n, 0) + BytesMod(ct[3], n, 0)) % n

(* hashlib.sha256(prefix + serialized).digest()[:len] *)
Sha256(prefix, serialized, len) == <<"SHA-256", prefix, len, serialized>>

(* AESGCM(key).encrypt(nonce, pt, None) *)
AesGcmEncrypt(key, nonce, pt) == <<"AES-GCM", key, nonce, pt>>

(* AESGCM(key).decrypt(nonce, ct, None): the plaintext, or InvalidTag *)
AesGcmDecrypt(key, nonce, ct) ==
    IF ct[1] = "AES-GCM" /\ ct[2] = key /\ ct[3] = nonce
    THEN [pt |-> ct[4]]
    ELSE Raise("InvalidTag")

(* the dicts a loop of d[key] = value may leave, one per order in which
   the pairs of items are written *)
DictsOf(items) ==
    LET K == {it[1] : it \in items}
        V == {it[2] : it \in items}
    IN  {d \in [K -> V] : \A k \in K : <<k, d[k]>> \in items}

---------------------------------------------------------------------------
(* twoclient.Intersection (scheme 2) *)

(* __init__: self.g = group.random(G) *)
IntersectionInit == [scheme |-> "twoclient.Intersection", client_count |-> 2,
                     g |-> GPoint("g", <<>>), secpar |-> Unset, threshold |-> Unset]

(* setup: the values it may return *)
IntersectionSetup(secpar) ==
    LET sigma == FormVar(1)
    IN  {LET msk == URandom(secpar \div 8, draw, 0)
             IN  ListOf(<< <<msk, sigma>>, <<msk, FormSub(FormConst(1), sigma)>> >>) :
            draw \in 1..MaxRand}

(* _phi *)
IntersectionPhi(obj, cipher, pt) ==
    LET ct == AesCbc(cipher, ZeroPad(pt))
        exponent == CtIntMod(ct, q)
    IN  GExp(obj.g, FormConst(exponent))

(* _H *)
IntersectionH(type, g) == Sha256(0, Serialize(type, g), 16)

(* _H_bytes *)
IntersectionHBytes(g) == Sha256(1, Serialize("G", g), 32)

(* the body of encrypt's loop: the key and the value written for pt *)
IntersectionEncryptOne(obj, cipher, sigma, pt) ==
    LET k == IntersectionPhi(obj, cipher, pt)
        ct1 == Serialize("G", GExp(k, sigma))
        ae_key == IntersectionH("G", k)
        ae_nonce == <<"[:12]", IntersectionHBytes(k)>>
        ct2 == <<ae_nonce, AesGcmEncrypt(ae_key, ae_nonce, pt)>>
    IN  <<ae_key, <<ct1, ct2>> >>

(* encrypt: the dicts it may return *)
IntersectionEncrypt(obj, usk, id, pt_set) ==
    LET msk == usk[1]
        sigma == usk[2]
        iv == id
        cipher == Cipher(msk, iv)
    IN  DictsOf({IntersectionEncryptOne(obj, cipher, sigma, pt) : pt \in pt_set})

(* the body of eval's loop: the decryption of the entry under k *)
IntersectionEvalOne(cts, k) ==
    LET g1 == Deserialize(cts[0][k][1])
        g2 == Deserialize(cts[1][k][1])
        key == GMul(g1, g2)
        ae_nonce == cts[0][k][2][1]
        ct == cts[0][k][2][2]
        ae_key == IntersectionH("G", key)
    IN  AesGcmDecrypt(ae_key, ae_nonce, ct)

(* eval: the set it returns, or the exception a decryption raises *)
IntersectionEval(cts) ==
    LET ct_intersection == DOMAIN cts[0] \cap DOMAIN cts[1]
    IN  IF \E k \in ct_intersection : IsError(IntersectionEvalOne(cts, k))
        THEN Raise("InvalidTag")
        ELSE [value |-> {IntersectionEvalOne(cts, k).pt : k \in ct_intersection}]

InitTCI ==
    /\ hseed = 0
    /\ BFIdle
    /\ self = IntersectionInit
    /\ gid \in Gids
    /\ usks = <<>>
    /\ pt_sets = <<>>
    /\ ct_sets = <<>>
    /\ result = [op |-> "none"]
    /\ pc = "new"

SetupTCI(secpar) ==
    /\ pc = "new"
    /\ self' = [self EXCEPT !.secpar = secpar]
    /\ usks' \in IntersectionSetup(secpar)
    /\ pc' = "keyed"
    /\ UNCHANGED <<hseed, bfVars, gid, pt_sets, ct_sets, result>>

EncryptTCI(i, pt_set) ==
    /\ pc = "keyed"
    /\ i \notin DOMAIN ct_sets
    /\ pt_sets' = (i :> pt_set) @@ pt_sets
    /\ \E ct_dict \in IntersectionEncrypt(self, usks[i], gid, pt_set) :
          ct_sets' = (i :> ct_dict) @@ ct_sets
    /\ UNCHANGED <<hseed, bfVars, self, gid, usks, result, pc>>

EvalTCI ==
    /\ pc = "keyed"
    /\ DOMAIN ct_sets = 0..(self.client_count - 1)
    /\ result' = [op |-> "eval"] @@ IntersectionEval(ct_sets)
    /\ pc' = "done"
    /\ UNCHANGED <<hseed, bfVars, self, gid, usks, pt_sets, ct_sets>>

NextTCI ==
    \/ \E secpar \in SecPars : SetupTCI(secpar)
    \/ \E i \in 0..1, pt_set \in PtSets(MaxPtSet) : EncryptTCI(i, pt_set)
    \/ EvalTCI

SpecTCI == InitTCI /\ [][NextTCI]_vars

---------------------------------------------------------------------------
(* twoclient.Threshold (scheme 3) *)

(* the values int(group.random(ZR)) is drawn from *)
RandZR == {0, 1, 4}

(* os.urandom(12) in the call-th encrypt call; tag tells the draws of one
   call apart: no two draws return the same bytes *)
URandomNonce(call, tag) == <<"urandom", call, tag>>

(* __init__, inherited from Intersection *)
ThresholdInit == [scheme |-> "twoclient.Threshold", client_count |-> 2,
                  g |-> GPoint("g", <<>>), secpar |-> Unset, threshold |-> Unset,
                  ff_order |-> Unset]

(* setup: the attributes it sets *)
ThresholdSetupSelf(obj, secpar, threshold) ==
    [obj EXCEPT !.secpar = secpar, !.threshold = threshold, !.ff_order = q - 1]

(* setup: the values it may return *)
ThresholdSetup(obj, secpar, threshold) ==
    LET ff_order == q - 1
        sigma == FormVar(1)
    IN  {LET rho2 == (1 - rho1) % ff_order
                 sk1 == URandom(secpar \div 8, draw, 0)
                 sk2 == URandom(secpar \div 8, draw, 1)
                 sk3 == URandom(secpar \div 8, draw, 2)
             IN  ListOf(<< <<sk1, sk2, sk3, sigma, rho1>>,
                           <<sk1, sk2, sk3, FormSub(FormConst(1), sigma), rho2>> >>) :
            draw \in 1..MaxRand, rho1 \in RandZR}

(* _psi *)
ThresholdPsi(cipher, pt) == CtIntMod(AesCbc(cipher, ZeroPad(pt)), q)

(* f of encrypt, the Shamir polynomial with the coefficients cs *)
ThresholdF(cs, x) ==
    SumOver([i \in DOMAIN cs |-> (cs[i] * PowMod(x, i)) % q], DOMAIN cs) % q

(* the body of encrypt's loop: the key and the value written for pt *)
ThresholdEncryptOne(obj, phi, psi1, cs, sigma, rho, ae1_key, ae1_nonce, draw, pt) ==
    LET k1 == IntersectionPhi(obj, phi, pt)
        k2 == ThresholdPsi(psi1, pt)
        ct1 == Serialize("ZR", k2)
        ct2 == Serialize("ZR", PowMod(ThresholdF(cs, k2), rho))
        k1_sigma == Serialize("G", GExp(k1, sigma))
        ct3 == <<ae1_nonce, AesGcmEncrypt(ae1_key, ae1_nonce, k1_sigma)>>
        ae2_key == IntersectionH("G", k1)
        ae2_nonce == URandomNonce(draw, <<1>> \o pt)
        ct4 == <<ae2_nonce, AesGcmEncrypt(ae2_key, ae2_nonce, pt)>>
    IN  <<ct1, <<ct2, ct3, ct4>> >>

(* encrypt: the dicts the draw-th encrypt call may return *)
ThresholdEncrypt(obj, usk, id, pt_set, draw) ==
    LET sk1 == usk[1]
        sk2 == usk[2]
        sk3 == usk[3]
        sigma == usk[4]
        rho == usk[5]
        iv == id
        phi == Cipher(sk1, iv)
        psi1 == Cipher(sk2, iv)
        psi2 == Cipher(sk3, iv)
        cs == [i \in 0..(obj.threshold - 1) |-> ThresholdPsi(psi2, ToBytes(i, 16))]
        ae1_key == IntersectionH("ZR", cs[0])
        ae1_nonce == URandomNonce(draw, <<0>>)
    IN  DictsOf({ThresholdEncryptOne(obj, phi, psi1, cs, sigma, rho, ae1_key, ae1_nonce,
                                     draw, pt) : pt \in pt_set})

(* delta of eval: the Lagrange coefficient of i at 0 over the points S *)
ThresholdDelta(S, i) ==
    LET others == S \ {i}
        RECURSIVE prod(_)
        prod(T) == IF T = {} THEN 1
                   ELSE LET j == CHOOSE x \in T : TRUE
                        IN  (prod(T \ {j}) * ((j * InvMod((j - i) % q)) % q)) % q
    IN  prod(others)

(* eval's recovery of c0 from the keys taken by islice *)
ThresholdRecover(cts, taken) ==
    LET xs == {Deserialize(k) : k \in taken}
        y(k) == (Deserialize(cts[0][k][1]) * Deserialize(cts[1][k][1])) % q
    IN  SumOver([k \in taken |-> (y(k) * ThresholdDelta(xs, Deserialize(k))) % q], taken) % q

(* the body of eval's second loop: the decryption of the entry under k *)
ThresholdEvalOne(cts, c0, k) ==
    LET ae1_key == IntersectionH("ZR", c0)
        ct1_k1 == cts[0][k][2]
        ct2_k1 == cts[1][k][2]
        ct1_ae == cts[0][k][3]
        pt1_k1_sigma == AesGcmDecrypt(ae1_key, ct1_k1[1], ct1_k1[2])
        pt2_k1_sigma == AesGcmDecrypt(ae1_key, ct2_k1[1], ct2_k1[2])
    IN  IF IsError(pt1_k1_sigma) THEN pt1_k1_sigma
        ELSE IF IsError(pt2_k1_sigma) THEN pt2_k1_sigma
        ELSE LET k1 == GMul(Deserialize(pt1_k1_sigma.pt), Deserialize(pt2_k1_sigma.pt))
                 ae2_key == IntersectionH("G", k1)
             IN  AesGcmDecrypt(ae2_key, ct1_ae[1], ct1_ae[2])

(* eval: the pairs it may return, or the exception a decryption raises,
   one for each choice islice may make among the common keys *)
ThresholdEval(obj, cts) ==
    LET ct_intersection == DOMAIN cts[0] \cap DOMAIN cts[1]
        cardinality == Cardinality(ct_intersection)
    IN  IF cardinality >= obj.threshold
        THEN {LET c0 == ThresholdRecover(cts, taken)
              IN  IF \E k \in ct_intersection : IsError(ThresholdEvalOne(cts, c0, k))
                  THEN Raise("InvalidTag")
                  ELSE [value |-> <<cardinality,
                                    {ThresholdEvalOne(cts, c0, k).pt : k \in ct_intersection}>>] :
                taken \in {T \in SUBSET ct_intersection : Cardinality(T) = obj.threshold}}
        ELSE {[value |-> <<cardinality, {}>>]}

InitTCT ==
    /\ hseed = 0
    /\ BFIdle
    /\ self = ThresholdInit
    /\ gid \in Gids
    /\ usks = <<>>
    /\ pt_sets = <<>>
    /\ ct_sets = <<>>
    /\ result = [op |-> "none"]
    /\ pc = "new"

SetupTCT(secpar, threshold) ==
    /\ pc = "new"
    /\ self' = ThresholdSetupSelf(self, secpar, threshold)
    /\ usks' \in ThresholdSetup(self, secpar, threshold)
    /\ pc' = "keyed"
    /\ UNCHANGED <<hseed, bfVars, gid, pt_sets, ct_sets, result>>

EncryptTCT(i, pt_set) ==
    /\ pc = "keyed"
    /\ i \notin DOMAIN ct_sets
    /\ pt_sets' = (i :> pt_set) @@ pt_sets
    /\ \E ct_dict \in ThresholdEncrypt(self, usks[i], gid, pt_set, i) :
          ct_sets' = (i :> ct_dict) @@ ct_sets
    /\ UNCHANGED <<hseed, bfVars, self, gid, usks, result, pc>>

EvalTCT ==
    /\ pc = "keyed"
    /\ DOMAIN ct_sets = 0..(self.client_count - 1)
    /\ \E r \in ThresholdEval(self, ct_sets) : result' = [op |-> "eval"] @@ r
    /\ pc' = "done"
    /\ UNCHANGED <<hseed, bfVars, self, gid, usks, pt_sets, ct_sets>>

NextTCT ==
    \/ \E secpar \in SecPars, threshold \in 1..MaxThreshold : SetupTCT(secpar, threshold)
    \/ \E i \in 0..1, pt_set \in PtSets(MaxPtSet) : EncryptTCT(i, pt_set)
    \/ EvalTCT

SpecTCT == InitTCT /\ [][NextTCT]_vars

---------------------------------------------------------------------------
(* multiclient.Cardinality (scheme 4) *)

(* the plaintexts of the multi-client clients *)
MCPlaintexts == { <<97>>, <<97, 0>>, <<98>> }

(* the plaintext sets a multi-client client may hold: no client holds
   every plaintext *)
MCPtSets == SUBSET MCPlaintexts \ {MCPlaintexts}

(* __init__ *)
MCCardinalityInit == [scheme |-> "multiclient.Cardinality", g |-> GPoint("g", <<>>),
                      client_count |-> Unset]

(* setup: the keys before the last one is appended *)
MCCardinalityRandomKeys(client_count) == [i \in 0..(client_count - 2) |-> FormVar(i + 1)]

(* setup: the key appended last, with the negation left out *)
MCCardinalityLastKeyUnnegated(drawn) == FormSum(drawn)

(* setup: the key appended last, -sum(usks) *)
MCCardinalityLastKey(drawn) == FormNeg(FormSum(drawn))

(* setup: the list it returns *)
MCCardinalitySetup(secpar, client_count) ==
    LET drawn == MCCardinalityRandomKeys(client_count)
    IN  [i \in 0..ListLen(drawn) |->
            IF i \in DOMAIN drawn THEN drawn[i] ELSE MCCardinalityLastKey(drawn)]

(* encrypt, with the key left out of the exponent *)
MCCardinalityEncryptUnkeyed(usk, id, pt_set) ==
    {Serialize("G", GHash(id \o pt)) : pt \in pt_set}

(* encrypt *)
MCCardinalityEncrypt(usk, id, pt_set) ==
    {Serialize("G", GExp(GHash(id \o pt), usk)) : pt \in pt_set}

RECURSIVE MCIntersectionCount(_, _)
RECURSIVE MCIntersectionLoop(_, _, _, _, _)
(* intersection_count of eval: the pairs (count, ct_sets) it may return, one
   for each order in which the loops may iterate over their sets *)
MCIntersectionCount(cts, product) ==
    LET last == ListLen(cts) - 1
        ct_set == cts[last]
        rest == [i \in 0..(last - 1) |-> cts[i]]
    IN  IF DOMAIN rest = {}
        THEN LET hits == {ct_str \in ct_set : GMul(product, Deserialize(ct_str)) = GOne}
             IN  IF hits = {} THEN {<<0, ListOf(<<ct_set>>)>>}
                 ELSE {<<1, ListOf(<<ct_set \ {ct_str}>>)>> : ct_str \in hits}
        ELSE MCIntersectionLoop(ct_set, 0, ct_set, rest, product)

(* the for loop of intersection_count over ct_set.copy(): todo are the
   elements still to visit *)
MCIntersectionLoop(todo, count, ct_set, rest, product) ==
    IF todo = {} THEN {<<count, [i \in 0..ListLen(rest) |->
                                    IF i \in DOMAIN rest THEN rest[i] ELSE ct_set]>>}
    ELSE UNION {UNION {LET found == r[1]
                       IN  MCIntersectionLoop(todo \ {ct_str},
                               IF found = 1 THEN count + 1 ELSE count,
                               IF found = 1 THEN ct_set \ {ct_str} ELSE ct_set,
                               r[2], product) :
                       r \in MCIntersectionCount(rest, GMul(product, Deserialize(ct_str)))} :
                ct_str \in todo}

(* eval: the cardinalities it may return on the list cts *)
MCCardinalityEval(obj, cts) ==
    LET one == GExp(obj.g, FormConst(0))
    IN  {r[1] : r \in MCIntersectionCount(cts, one)}

(* the orders in which n ciphertext sets can be listed *)
Orders(n) == {p \in [0..(n - 1) -> 0..(n - 1)] : \A i, j \in 0..(n - 1) : p[i] = p[j] => i = j}

InitMC ==
    /\ hseed = 0
    /\ BFIdle
    /\ self = MCCardinalityInit
    /\ gid \in Gids
    /\ usks = <<>>
    /\ pt_sets = <<>>
    /\ ct_sets = <<>>
    /\ result = [op |-> "none"]
    /\ pc = "new"

SetupMC(secpar, client_count) ==
    /\ pc = "new"
    /\ self' = [self EXCEPT !.client_count = client_count]
    /\ usks' = MCCardinalitySetup(secpar, client_count)
    /\ pc' = "keyed"
    /\ UNCHANGED <<hseed, bfVars, gid, pt_sets, ct_sets, result>>

EncryptMC(i, pt_set) ==
    /\ pc = "keyed"
    /\ i \in DOMAIN usks
    /\ i \notin DOMAIN ct_sets
    /\ pt_sets' = (i :> pt_set) @@ pt_sets
    /\ ct_sets' = (i :> MCCardinalityEncrypt(usks[i], gid, pt_set)) @@ ct_sets
    /\ UNCHANGED <<hseed, bfVars, self, gid, usks, result, pc>>

(* eval on the clients' ciphertext sets, listed in any order *)
EvalMC ==
    /\ pc = "keyed"
    /\ DOMAIN ct_sets = 0..(self.client_count - 1)
    /\ \E order \in Orders(self.client_count) :
          \E value \in MCCardinalityEval(self, [j \in DOMAIN order |-> ct_sets[order[j]]]) :
             result' = [op |-> "eval", order |-> order, value |-> value]
    /\ pc' = "done"
    /\ UNCHANGED <<hseed, bfVars, self, gid, usks, pt_sets, ct_sets>>

NextMC ==
    \/ \E secpar \in SecPars, client_count \in 1..MaxClients : SetupMC(secpar, client_count)
    \/ \E i \in 0..(MaxClients - 1), pt_set \in MCPtSets : EncryptMC(i, pt_set)
    \/ EvalMC

SpecMC == InitMC /\ [][NextMC]_vars

---------------------------------------------------------------------------
(* multiclient.Cardinality.eval on any list of sets of serialized group
   elements *)

(* the exponents of g the elements of the sets are taken from, modulo q *)
AnyExponents == {1, 2, 8}

AnyCts == {Serialize("G", GExp(GPoint("g", <<>>), FormConst(x))) : x \in AnyExponents}

AnyCtSets == {S \in SUBSET AnyCts : Cardinality(S) <= MaxPtSet}

(* the caller's list after eval, had intersection_count worked on the
   caller's list and sets themselves *)
MCEvalCallerSetsAliased(given, working) == working

(* the caller's list after eval: list(ct_sets), the slices and
   set(ct_sets[-1]) are copies, and all removals and appends act on them *)
MCEvalCallerSets(given, working) == given

InitMCA ==
    /\ hseed = 0
    /\ BFIdle
    /\ self = MCCardinalityInit
    /\ gid \in Gids
    /\ usks = <<>>
    /\ pt_sets = <<>>
    /\ \E n \in 1..MaxClients : ct_sets \in [0..(n - 1) -> AnyCtSets]
    /\ result = [op |-> "none"]
    /\ pc = "keyed"

(* eval: given is the list as it was passed, working the list
   intersection_count returned *)
EvalMCA ==
    /\ pc = "keyed"
    /\ \E r \in MCIntersectionCount(ct_sets, GExp(self.g, FormConst(0))) :
          /\ result' = [op |-> "eval", value |-> r[1], given |-> ct_sets, working |-> r[2]]
          /\ ct_sets' = MCEvalCallerSets(ct_sets, r[2])
    /\ pc' = "done"
    /\ UNCHANGED <<hseed, bfVars, self, gid, usks, pt_sets>>

NextMCA == EvalMCA

SpecMCA == InitMCA /\ [][NextMCA]_vars

---------------------------------------------------------------------------
(* multiclient.CardinalityEfficient (scheme 5) *)

(* __init__, inherited from Cardinality: no client_count attribute yet *)
MCEInit == [scheme |-> "multiclient.CardinalityEfficient", g |-> GPoint("g", <<>>),
            client_count |-> Unset, m |-> Unset, k |-> Unset]

(* setup: the attributes it sets before it reads self.client_count *)
MCESetupSelf(obj, m, k) == [obj EXCEPT !.m = m, !.k = k]

(* setup: cs, the coefficients of f *)
MCECoefficients(count) == [d \in 0..count |-> IF d = 0 THEN FormConst(0) ELSE FormVar(d)]

(* f of setup, the Shamir polynomial: sum of c * x**i *)
MCEF(cs, x) == FormSum([d \in DOMAIN cs |-> FormScale(cs[d], PowMod(x, d))])

(* setup: the lists it may return, or the AttributeError of the read of
   self.client_count on an object that has no such attribute; the
   client_count argument is not used *)
MCESetup(obj, secpar, client_count, m, k) ==
    IF obj.client_count = Unset THEN {Raise("AttributeError")}
    ELSE {LET phi_key == URandom(secpar \div 8, draw, 0)
              cs == MCECoefficients(obj.client_count)
          IN  [value |-> [j \in 0..(obj.client_count - 1) |->
                  <<phi_key, MCEF(cs, j + 1), MCEF(cs, obj.client_count + j + 1)>>]] :
             draw \in 1..MaxRand}

(* _prf *)
MCEPrf(cipher, pt) == AesCbc(cipher, ZeroPad(pt))

(* the bytes of an AES-CBC output, as the Bloom filter hashes them: the
   cipher is a keyed permutation, so they are told apart by key, IV and
   input *)
CtBytes(ct) == ct[2] \o ct[3] \o ct[4]

(* the orders in which a loop may iterate over a set: its lists *)
ListsOf(S) ==
    {l \in [0..(Cardinality(S) - 1) -> S] : \A i, j \in DOMAIN l : l[i] = l[j] => i = j}

(* the point group.random(G) returns in its d-th draw of one encrypt call *)
RandomG(call, d) == GPoint("R", <<call, d>>)

(* H(i.to_bytes(self.k.bit_length(), 'big') + gid, G) *)
MCEHashBit(obj, id, i) == GHash(ToBytes(i, BitLength(obj.k)) \o id)

RECURSIVE MCEAddAll(_, _, _, _)
(* bf_set after the adds of encrypt's first loop *)
MCEAddAll(seed, bf_set, cts, j) ==
    IF j \notin DOMAIN cts THEN bf_set
    ELSE MCEAddAll(seed, BloomAdd(seed, bf_set, CtBytes(cts[j])), cts, j + 1)

(* encrypt: ct_element of the j-th element of the loop, ct its PRF value *)
MCEEncryptElement(seed, obj, fni, id, ct, call, j) ==
    LET bf == BloomAdd(seed, BloomFilter(obj.m, obj.k), CtBytes(ct))
        t == BloomWeight(bf)
    IN  [i \in 0..(bf.m - 1) |->
            LET gr == RandomG(call, 2 * (j * bf.m + i))
                grho == IF BitStringGetItem(bf.bs, i) = 0
                        THEN RandomG(call, 2 * (j * bf.m + i) + 1)
                        ELSE GExp(gr, FormConst(t))
            IN  <<GMul(GExp(MCEHashBit(obj, id, i), fni), grho), gr>>]

(* encrypt: ct_bf_set, the encrypted filter of the whole set *)
MCEEncryptFilter(obj, fi, id, bf_set, call, elements) ==
    [i \in 0..(bf_set.m - 1) |->
        LET ct == GExp(MCEHashBit(obj, id, i), fi)
        IN  IF BitStringGetItem(bf_set.bs, i) = 0
            THEN GMul(ct, RandomG(call, 2 * elements * bf_set.m + i))
            ELSE ct]

(* encrypt, for the order pts in which the loop visits pt_set *)
MCEEncrypt(seed, obj, usk, id, pts, call) ==
    LET phi_key == usk[1]
        fi == usk[2]
        fni == usk[3]
        iv == id
        cipher == Cipher(phi_key, iv)
        cts == [j \in DOMAIN pts |-> MCEPrf(cipher, pts[j])]
        bf_set == MCEAddAll(seed, BloomFilter(obj.m, obj.k), cts, 0)
        ct_elements == [j \in DOMAIN pts |->
                           MCEEncryptElement(seed, obj, fni, id, cts[j], call, j)]
        ct_bf_set == MCEEncryptFilter(obj, fi, id, bf_set, call, ListLen(pts))
    IN  <<ct_bf_set, ct_elements>>

(* delta of eval: the Lagrange coefficient of i at 0 over the points S *)
MCEDelta(S, i) ==
    LET RECURSIVE prod(_)
        prod(n) == IF n \notin DOMAIN S THEN 1
                   ELSE IF S[n] = i % q THEN prod(n + 1)
                   ELSE (prod(n + 1) * ((S[n] * InvMod((S[n] - i) % q)) % q)) % q
    IN  prod(0)

RECURSIVE MCESmallestFrom(_, _, _)
(* eval's search for the first set with the fewest element ciphertexts *)
MCESmallestFrom(cts, i, smallest_set_index) ==
    IF i \notin DOMAIN cts THEN smallest_set_index
    ELSE IF ListLen(cts[i][2]) < ListLen(cts[smallest_set_index][2])
         THEN MCESmallestFrom(cts, i + 1, i)
         ELSE MCESmallestFrom(cts, i + 1, smallest_set_index)

(* S of eval *)
MCEPoints(obj, gamma) ==
    [n \in 0..obj.client_count |->
        IF n < obj.client_count THEN (n + 1) % q ELSE (obj.client_count + gamma) % q]

RECURSIVE MCEProductFrom(_, _, _, _)
(* a of eval's first loop, for the bit ell, from the i-th set on *)
MCEProductFrom(cts, S, ell, i) ==
    IF i \notin DOMAIN cts THEN GOne
    ELSE GMul(GExp(cts[i][1][ell], FormConst(MCEDelta(S, i + 1))),
              MCEProductFrom(cts, S, ell, i + 1))

(* a_list of eval *)
MCEAList(obj, cts, S) == [ell \in 0..(obj.m - 1) |-> MCEProductFrom(cts, S, ell, 0)]

(* t = None *)
None == 0

RECURSIVE MCECounted(_, _, _, _, _, _, _)
(* eval's loop over the bits of one ct_element from bit ell on: 1 when it
   adds the element to cardinality, 0 when it ends without doing so *)
MCECounted(obj, ct_element, a_list, Delta, ell, t, identical_count) ==
    IF ell >= obj.m THEN 0
    ELSE LET lhs == GMul(GExp(ct_element[ell][1], FormConst(Delta)), a_list[ell])
         IN  IF t = None
             THEN LET found == {i \in 1..obj.k :
                                  lhs = GExp(ct_element[ell][2], FormConst(Delta * i))}
                  IN  IF found = {}
                      THEN MCECounted(obj, ct_element, a_list, Delta, ell + 1, None, 0)
                      ELSE MCECounted(obj, ct_element, a_list, Delta, ell + 1,
                                      CHOOSE i \in found : \A j \in found : j <= i, 1)
             ELSE LET rhs == GExp(ct_element[ell][2], FormConst(Delta * t))
                  IN  IF lhs = rhs
                      THEN IF t = identical_count + 1 THEN 1
                           ELSE MCECounted(obj, ct_element, a_list, Delta, ell + 1,
                                           t, identical_count + 1)
                      ELSE MCECounted(obj, ct_element, a_list, Delta, ell + 1,
                                      t, identical_count)

(* eval *)
MCEEval(obj, cts) ==
    LET smallest_set_index == MCESmallestFrom(cts, 1, 0)
        gamma == smallest_set_index + 1
        S == MCEPoints(obj, gamma)
        a_list == MCEAList(obj, cts, S)
        ct_elements == cts[smallest_set_index][2]
        Delta == MCEDelta(S, obj.client_count + gamma)
    IN  SumOver([j \in DOMAIN ct_elements |->
                    MCECounted(obj, ct_elements[j], a_list, Delta, 0, None, 0)],
                DOMAIN ct_elements)

(* the filter lengths setup is called with: the shortest, on which all
   positions coincide, and the longest *)
FilterLengths == {1, MaxBits}

InitMCE ==
    /\ hseed = 0
    /\ BFIdle
    /\ self = MCEInit
    /\ gid \in Gids
    /\ usks = <<>>
    /\ pt_sets = <<>>
    /\ ct_sets = <<>>
    /\ result = [op |-> "none"]
    /\ pc = "new"

(* the caller's scheme.client_count = client_count *)
SetClientCountMCE(client_count) ==
    /\ pc = "new"
    /\ self.client_count = Unset
    /\ self' = [self EXCEPT !.client_count = client_count]
    /\ UNCHANGED <<hseed, bfVars, gid, usks, pt_sets, ct_sets, result, pc>>

(* setup, called with the count the caller has set on the object or with
   the largest count *)
SetupMCE(secpar, client_count, m, k) ==
    /\ pc = "new"
    /\ client_count \in {self.client_count, MaxClients}
    /\ self' = MCESetupSelf(self, m, k)
    /\ \E r \in MCESetup(self, secpar, client_count, m, k) :
          IF IsError(r)
          THEN /\ result' = [op |-> "setup", client_count |-> client_count] @@ r
               /\ pc' = "failed"
               /\ usks' = usks
          ELSE /\ result' = [op |-> "setup", client_count |-> client_count]
               /\ pc' = "keyed"
               /\ usks' = r.value
    /\ UNCHANGED <<hseed, bfVars, gid, pt_sets, ct_sets>>

EncryptMCE(i, pt_set) ==
    /\ pc = "keyed"
    /\ i \in DOMAIN usks
    /\ i \notin DOMAIN ct_sets
    /\ pt_sets' = (i :> pt_set) @@ pt_sets
    /\ \E pts \in ListsOf(pt_set) :
          ct_sets' = (i :> MCEEncrypt(hseed, self, usks[i], gid, pts, i)) @@ ct_sets
    /\ UNCHANGED <<hseed, bfVars, self, gid, usks, result, pc>>

(* eval on the clients' ciphertexts, listed in client order *)
EvalMCE ==
    /\ pc = "keyed"
    /\ DOMAIN ct_sets = DOMAIN usks
    /\ result' = [op |-> "eval", client_count |-> result.client_count,
                  value |-> MCEEval(self, ct_sets)]
    /\ pc' = "done"
    /\ UNCHANGED <<hseed, bfVars, self, gid, usks, pt_sets, ct_sets>>

NextMCE ==
    \/ \E client_count \in 1..MaxClients : SetClientCountMCE(client_count)
    \/ \E secpar \in SecPars, client_count \in 1..MaxClients,
          m \in FilterLengths, k \in 1..MaxK :
          SetupMCE(secpar, client_count, m, k)
    \/ \E i \in 0..(MaxClients - 1), pt_set \in MCPtSets : EncryptMCE(i, pt_set)
    \/ EvalMCE

SpecMCE == InitMCE /\ [][NextMCE]_vars

---------------------------------------------------------------------------
(* twoclient.Threshold with ciphertexts that are modified on their way to
   eval *)

(* an AES-GCM ciphertext with a bit changed *)
Tampered(ct) == <<"tampered", ct>>

IsTampered(ct) == ct[1] = "tampered"

(* the entries of the dicts that eval decrypts: ct3 and ct4 of the first
   dict and ct3 of the second, under the common keys *)
EvalDecrypts(cts) ==
    {<<i, k, part>> \in (0..1) \X (DOMAIN cts[0] \cap DOMAIN cts[1]) \X (2..3) :
        i = 0 \/ part = 2}

(* one of the pairs (nonce, ciphertext) that eval will decrypt is modified
   before the dicts are handed to eval *)
TamperTCT(i, k, part) ==
    /\ pc = "keyed"
    /\ DOMAIN ct_sets = 0..(self.client_count - 1)
    /\ <<i, k, part>> \in EvalDecrypts(ct_sets)
    /\ \A e \in EvalDecrypts(ct_sets) : ~IsTampered(ct_sets[e[1]][e[2]][e[3]][2])
    /\ ct_sets' = [ct_sets EXCEPT ![i][k][part] = <<@[1], Tampered(@[2])>>]
    /\ UNCHANGED <<hseed, bfVars, self, gid, usks, pt_sets, result, pc>>

NextTCTm ==
    \/ \E secpar \in SecPars, threshold \in 1..MaxThreshold : SetupTCT(secpar, threshold)
    \/ \E i \in 0..1, pt_set \in PtSets(MaxPtSet) : EncryptTCT(i, pt_set)
    \/ \E i \in 0..1, x \in Zq, part \in 2..3 : TamperTCT(i, Serialize("ZR", x), part)
    \/ EvalTCT

SpecTCTm == InitTCT /\ [][NextTCTm]_vars

---------------------------------------------------------------------------
(* twoclient.Threshold with a second setup call on the same object *)

(* setup called again, with another threshold, after both clients have
   encrypted: the object's attributes are overwritten; the keys the call
   returns are dropped by the caller, as evaluate_setup does *)
ResetupTCT(secpar, threshold) ==
    /\ pc = "keyed"
    /\ DOMAIN ct_sets = 0..(self.client_count - 1)
    /\ result.op = "none"
    /\ threshold # self.threshold
    /\ self' = ThresholdSetupSelf(self, secpar, threshold)
    /\ result' = [op |-> "setup", threshold_before |-> self.threshold]
    /\ UNCHANGED <<hseed, bfVars, gid, usks, pt_sets, ct_sets, pc>>

NextTCTr ==
    \/ \E secpar \in SecPars, threshold \in 1..MaxThreshold : SetupTCT(secpar, threshold)
    \/ \E i \in 0..1, pt_set \in PtSets(MaxPtSet) : EncryptTCT(i, pt_set)
    \/ \E secpar \in SecPars, threshold \in 1..MaxThreshold : ResetupTCT(secpar, threshold)
    \/ EvalTCT

SpecTCTr == InitTCT /\ [][NextTCTr]_vars

---------------------------------------------------------------------------
(* twoclient.Threshold called with any security parameter and threshold *)

(* the security parameters setup is called with here: one is no multiple
   of 8 *)
SecParsAny == {12, 128}

(* the key lengths algorithms.AES accepts with modes.CBC, in bytes *)
AesKeyLengths == {16, 24, 32}

(* encrypt, with the exceptions its statements raise before the loop:
   algorithms.AES on a key of a wrong length, and cs[0] on an empty cs *)
ThresholdEncryptCall(obj, usk, id, pt_set, draw) ==
    IF \E j \in 1..3 : Len(usk[j]) \notin AesKeyLengths
    THEN {Raise("ValueError")}
    ELSE IF obj.threshold = 0
    THEN {Raise("IndexError")}
    ELSE {[value |-> ct_dict] : ct_dict \in ThresholdEncrypt(obj, usk, id, pt_set, draw)}

SetupAny(secpar, threshold) ==
    /\ pc = "new"
    /\ self' = ThresholdSetupSelf(self, secpar, threshold)
    /\ usks' \in ThresholdSetup(self, secpar, threshold)
    /\ result' = [op |-> "setup", secpar |-> secpar, threshold |-> threshold]
    /\ pc' = "keyed"
    /\ UNCHANGED <<hseed, bfVars, gid, pt_sets, ct_sets>>

EncryptAny(i, pt_set) ==
    /\ pc = "keyed"
    /\ i \notin DOMAIN ct_sets
    /\ \E r \in ThresholdEncryptCall(self, usks[i], gid, pt_set, i) :
          IF IsError(r)
          THEN /\ result' = [op |-> "encrypt", client |-> i] @@ r
               /\ pc' = "failed"
               /\ UNCHANGED <<pt_sets, ct_sets>>
          ELSE /\ pt_sets' = (i :> pt_set) @@ pt_sets
               /\ ct_sets' = (i :> r.value) @@ ct_sets
               /\ UNCHANGED <<result, pc>>
    /\ UNCHANGED <<hseed, bfVars, self, gid, usks>>

NextAny ==
    \/ \E secpar \in SecParsAny, threshold \in 0..MaxThreshold : SetupAny(secpar, threshold)
    \/ \E i \in 0..1, pt_set \in PtSets(1) : EncryptAny(i, pt_set)
    \/ EvalTCT

SpecAny == InitTCT /\ [][NextAny]_vars

---------------------------------------------------------------------------
(* The PRF helpers, applied to the elements of one set under one key and
   one group identifier *)

(* ct of _phi: the block-cipher step *)
IntersectionPhiCt(cipher, pt) == AesCbc(cipher, ZeroPad(pt))

(* ct of _psi: the block-cipher step *)
ThresholdPsiCt(cipher, pt) == AesCbc(cipher, ZeroPad(pt))

PrfHelpers == {"twoclient.Cardinality._prf", "twoclient.Intersection._phi",
               "twoclient.Threshold._psi", "multiclient.CardinalityEfficient._prf"}

PrfApply(helper, cipher, pt) ==
    CASE helper = "twoclient.Cardinality._prf" -> TCCardinalityPrf(cipher, pt)
      [] helper = "twoclient.Intersection._phi" -> IntersectionPhiCt(cipher, pt)
      [] helper = "twoclient.Threshold._psi" -> ThresholdPsiCt(cipher, pt)
      [] helper = "multiclient.CardinalityEfficient._prf" -> MCEPrf(cipher, pt)

InitPRF ==
    /\ hseed = 0
    /\ BFIdle
    /\ self = [scheme |-> "PRF helpers"]
    /\ gid \in Gids
    /\ \E secpar \in SecPars, draw \in 1..MaxRand :
          usks = ListOf(<<URandom(secpar \div 8, draw, 0)>>)
    /\ \E pt_set \in PtSets(MaxPtSet) \ {{}} : pt_sets = ListOf(<<pt_set>>)
    /\ ct_sets = <<>>
    /\ result = [op |-> "none"]
    /\ pc = "keyed"

(* the helper is called on every element of the set, with the cipher that
   encrypt builds from the key and the group identifier *)
PrfCall(helper) ==
    /\ self.scheme = "PRF helpers"
    /\ result.op # helper
    /\ LET cipher == Cipher(usks[0], gid)
       IN  result' = [op |-> helper,
                      value |-> [pt \in pt_sets[0] |-> PrfApply(helper, cipher, pt)],
                      padded |-> [pt \in pt_sets[0] |-> ZeroPad(pt)]]
    /\ UNCHANGED <<hseed, bfVars, self, gid, usks, pt_sets, ct_sets, pc>>

NextPRF == \E helper \in PrfHelpers : PrfCall(helper)

SpecPRF == InitPRF /\ [][NextPRF]_vars

---------------------------------------------------------------------------
(* A caller that sets a scheme up, has one client encrypt a set and then
   makes the same encrypt call again: schemes 1, 2, 4 and 5 *)

InitDet == InitTCC \/ InitTCI \/ InitMC \/ InitMCE

SetClientCountDet(client_count) ==
    /\ self.scheme = "multiclient.CardinalityEfficient"
    /\ SetClientCountMCE(client_count)

SetupDet ==
    \/ /\ self.scheme = "twoclient.Cardinality"
       /\ \E secpar \in SecPars : SetupTCC(secpar)
    \/ /\ self.scheme = "twoclient.Intersection"
       /\ \E secpar \in SecPars : SetupTCI(secpar)
    \/ /\ self.scheme = "multiclient.Cardinality"
       /\ \E secpar \in SecPars, client_count \in 1..MaxClients : SetupMC(secpar, client_count)
    \/ /\ self.scheme = "multiclient.CardinalityEfficient"
       /\ \E secpar \in SecPars, client_count \in 1..MaxClients,
             m \in FilterLengths, k \in 1..MaxK : SetupMCE(secpar, client_count, m, k)

(* the first encrypt call on the instance *)
EncryptDet(i) ==
    /\ ct_sets = <<>>
    /\ i \in DOMAIN usks
    /\ \/ /\ self.scheme = "twoclient.Cardinality"
          /\ \E pt_set \in PtSets(MaxPtSet) : EncryptTCC(i, pt_set)
       \/ /\ self.scheme = "twoclient.Intersection"
          /\ \E pt_set \in PtSets(MaxPtSet) : EncryptTCI(i, pt_set)
       \/ /\ self.scheme = "multiclient.Cardinality"
          /\ \E pt_set \in MCPtSets : EncryptMC(i, pt_set)
       \/ /\ self.scheme = "multiclient.CardinalityEfficient"
          /\ \E pt_set \in MCPtSets : EncryptMCE(i, pt_set)

(* what encrypt(usks[i], gid, pt_sets[i]) may return in a further call on
   the instance; in scheme 5 the call draws its own random points *)
EncryptAgainOutcomes(i) ==
    CASE self.scheme = "twoclient.Cardinality" ->
            {TCCardinalityEncrypt(usks[i], gid, pt_sets[i])}
      [] self.scheme = "twoclient.Intersection" ->
            IntersectionEncrypt(self, usks[i], gid, pt_sets[i])
      [] self.scheme = "multiclient.Cardinality" ->
            {MCCardinalityEncrypt(usks[i], gid, pt_sets[i])}
      [] self.scheme = "multiclient.CardinalityEfficient" ->
            {MCEEncrypt(hseed, self, usks[i], gid, pts, MaxClients + i) :
                pts \in ListsOf(pt_sets[i])}

(* the second encrypt call, with the usk, gid and set of the first *)
EncryptAgainDet(i) ==
    /\ pc = "keyed"
    /\ i \in DOMAIN ct_sets
    /\ result.op # "encrypt"
    /\ \E ct \in EncryptAgainOutcomes(i) :
          result' = [op |-> "encrypt", client |-> i, value |-> ct]
    /\ UNCHANGED <<hseed, bfVars, self, gid, usks, pt_sets, ct_sets, pc>>

NextDet ==
    \/ \E client_count \in 1..MaxClients : SetClientCountDet(client_count)
    \/ SetupDet
    \/ \E i \in 0..(MaxClients - 1) : EncryptDet(i)
    \/ \E i \in 0..(MaxClients - 1) : EncryptAgainDet(i)

SpecDet == InitDet /\ [][NextDet]_vars

---------------------------------------------------------------------------
(* determine_parameters of BloomFilter and of CardinalityEfficient.  The
   floats of the code are fixed-point numbers here: the integer x stands
   for x / 2^FracBits.  error_rate is the fraction 1 / d. *)

MaxElements == 8
MaxInvRate == 8

(* the binary digits kept after the point *)
FracBits == 20

One == Pow(2, FracBits)

(* log(2) *)
Ln2 == 726817

(* the float product a * b, computed on half words so that no partial
   product leaves the 32-bit integers *)
MulFix(a, b) ==
    LET H == Pow(2, FracBits \div 2)
        ha == a \div H
        la == a % H
        hb == b \div H
        lb == b % H
    IN  ha * hb + ((ha * lb + la * hb + ((la * lb) \div H)) \div H)

RECURSIVE Log2Digits(_, _)
(* the digits b..FracBits of log2 of the mantissa y, 1 <= y < 2 *)
Log2Digits(y, b) ==
    IF b > FracBits THEN 0
    ELSE LET y2 == MulFix(y, y)
         IN  IF y2 >= 2 * One
             THEN (One \div Pow(2, b)) + Log2Digits(y2 \div 2, b + 1)
             ELSE Log2Digits(y2, b + 1)

(* log2(d) of an integer d >= 1 *)
Log2(d) ==
    LET e == BitLength(d) - 1
    IN  e * One + Log2Digits(d * (One \div Pow(2, e)), 1)

(* log(d) of an integer d >= 1 *)
Log(d) == MulFix(Log2(d), Ln2)

(* round(x / y) of Python 3: to the nearest integer, a tie to the even one *)
Round(x, y) ==
    LET qq == x \div y
        rr == x % y
    IN  IF 2 * rr > y \/ (2 * rr = y /\ qq % 2 = 1) THEN qq + 1 ELSE qq

(* BloomFilter.determine_parameters with the rounding left out *)
BloomDetermineParametersTruncated(max_elements, d) ==
    LET n == max_elements
        A == Log(d)
        B == MulFix(Ln2, Ln2)
    IN  <<n * (A \div B) + ((n * (A % B)) \div B), Log2(d) \div One>>

(* BloomFilter.determine_parameters(max_elements, 1 / d): -log(p) is log(d)
   and -log2(p) is log2(d) *)
BloomDetermineParameters(max_elements, d) ==
    LET n == max_elements
        A == Log(d)
        B == MulFix(Ln2, Ln2)
        m == n * (A \div B) + Round(n * (A % B), B)
        k == Round(Log2(d), One)
    IN  <<m, k>>

(* CardinalityEfficient.determine_parameters *)
MCEDetermineParameters(max_elements, d) == BloomDetermineParameters(max_elements, d)

InitDP ==
    /\ hseed = 0
    /\ BFIdle
    /\ \E n \in (1..MaxElements) \cup {1000}, d \in (2..MaxInvRate) \cup {1000} :
          self = [scheme |-> "determine_parameters", max_elements |-> n, error_rate |-> <<1, d>>]
    /\ gid = <<>>
    /\ usks = <<>>
    /\ pt_sets = <<>>
    /\ ct_sets = <<>>
    /\ result = [op |-> "determine_parameters", returned |-> <<>>]
    /\ pc = "new"

BloomDetermine ==
    /\ "BloomFilter" \notin DOMAIN result.returned
    /\ result' = [result EXCEPT !.returned =
          ("BloomFilter" :> BloomDetermineParameters(self.max_elements, self.error_rate[2])) @@ @]
    /\ UNCHANGED <<hseed, bfVars, self, gid, usks, pt_sets, ct_sets, pc>>

MCEDetermine ==
    /\ "CardinalityEfficient" \notin DOMAIN result.returned
    /\ result' = [result EXCEPT !.returned =
          ("CardinalityEfficient" :> MCEDetermineParameters(self.max_elements, self.error_rate[2])) @@ @]
    /\ UNCHANGED <<hseed, bfVars, self, gid, usks, pt_sets, ct_sets, pc>>

NextDP == BloomDetermine \/ MCEDetermine

SpecDP == InitDP /\ [][NextDP]_vars

---------------------------------------------------------------------------
(* Properties of the Bloom filter *)

(* C9: every element that has been added to a filter is reported as
   contained by it, in every state, so also after any further adds *)
C9_NoFalseNegatives ==
    /\ \A x \in added.A : BloomContains(hseed, bfA, x)
    /\ \A x \in added.B : BloomContains(hseed, bfB, x)

(* a filter of two bytes holding three added elements, two of them in one byte *)
C9_Witness ==
    /\ bfA.m > 8
    /\ Cardinality(added.A) >= 3
    /\ \E x, y \in added.A :
          /\ x # y
          /\ \E i, j \in 0..(bfA.k - 1) :
                LET hx == BloomHash(hseed, bfA.m, bfA.k, i, x)
                    hy == BloomHash(hseed, bfA.m, bfA.k, j, y)
                IN  hx # hy /\ hx \div 8 = hy \div 8
    /\ \A x \in added.A : BloomContains(hseed, bfA, x)

(* C10: for two filters of equal (m, k), every element contained in one of
   them is contained in their union *)
C10_UnionLaw ==
    (bfOut.op = "union" /\ bfOut.a.m = bfOut.b.m /\ bfOut.a.k = bfOut.b.k) =>
        /\ ~IsError(bfOut.out)
        /\ \A x \in Plaintexts :
              (BloomContains(hseed, bfOut.a, x) \/ BloomContains(hseed, bfOut.b, x))
                  => BloomContains(hseed, bfOut.out, x)

(* C11: union and intersection of two filters that differ in m or in k fail
   with a ParameterMismatch error and produce no result filter *)
C11_ParameterMismatch ==
    (bfOut.op \in {"union", "intersection"}
        /\ (bfOut.a.m # bfOut.b.m \/ bfOut.a.k # bfOut.b.k)) =>
        /\ IsError(bfOut.out)
        /\ bfOut.out.error = "ParameterMismatch"

---------------------------------------------------------------------------
(* Properties of the two-client schemes *)

(* C1: eval of the two ciphertext sets of one setup and one gid is the
   number of common plaintexts, |S0 \cap S1| *)
C1_CardinalityCorrect ==
    (self.scheme = "twoclient.Cardinality" /\ pc = "done") =>
        result.value = Cardinality(pt_sets[0] \cap pt_sets[1])

(* C2: eval of the two dicts of one setup and one gid returns exactly the
   plaintext set S0 \cap S1 *)
C2_IntersectionCorrect ==
    (self.scheme = "twoclient.Intersection" /\ pc = "done") =>
        /\ ~IsError(result)
        /\ result.value = pt_sets[0] \cap pt_sets[1]

(* C3: Threshold's eval returns (|S0 \cap S1|, S0 \cap S1) when the
   intersection has at least t elements, every decryption succeeding, and
   (|S0 \cap S1|, {}) when it has fewer *)
C3_ThresholdCorrect ==
    (self.scheme = "twoclient.Threshold" /\ pc = "done") =>
        LET I == pt_sets[0] \cap pt_sets[1]
        IN  /\ ~IsError(result)
            /\ result.value[1] = Cardinality(I)
            /\ result.value[2] = IF Cardinality(I) >= self.threshold THEN I ELSE {}

(* C13: when the intersection has at least t elements and an AEAD
   decryption of eval fails on a modified ct3 or ct4, eval still hands the
   caller the cardinality of the intersection *)
C13_CardinalitySurvivesAeadFailure ==
    (/\ self.scheme = "twoclient.Threshold"
     /\ pc = "done"
     /\ Cardinality(pt_sets[0] \cap pt_sets[1]) >= self.threshold
     /\ \E e \in EvalDecrypts(ct_sets) : IsTampered(ct_sets[e[1]][e[2]][e[3]][2])) =>
        /\ ~IsError(result)
        /\ result.value[1] = Cardinality(pt_sets[0] \cap pt_sets[1])

(* C14: a setup call with a secpar that is no multiple of 8, or with
   threshold = 0, fails with InvalidArgument and returns no keys *)
C14_SetupValidates ==
    (/\ self.scheme = "twoclient.Threshold"
     /\ result.op = "setup"
     /\ (result.secpar % 8 # 0 \/ result.threshold = 0)) =>
        /\ IsError(result)
        /\ result.error = "InvalidArgument"
        /\ usks = <<>>

(* C19: a second setup(secpar, t') with t' # t, called after the two
   encrypt calls, does not change what eval returns on their ciphertexts *)
C19_ResetupKeepsEval ==
    (self.scheme = "twoclient.Threshold" /\ result.op = "setup"
        /\ "threshold_before" \in DOMAIN result) =>
        ThresholdEval(self, ct_sets)
            = ThresholdEval([self EXCEPT !.threshold = result.threshold_before], ct_sets)

(* what the holder of one dict D, and of no user key, can compute as AEAD
   keys: the dict's keys as they are, and _H of the points D holds and of
   their products *)
HolderKeys(D) ==
    LET points == {Deserialize(D[k][1]) : k \in DOMAIN D}
    IN  DOMAIN D
          \cup {IntersectionH("G", p) : p \in points}
          \cup {IntersectionH("G", GMul(p1, p2)) : p1 \in points, p2 \in points}

(* the entries of D whose ct2 one of these keys opens *)
HolderOpens(D) ==
    {k \in DOMAIN D :
        \E key \in HolderKeys(D) : ~IsError(AesGcmDecrypt(key, D[k][2][1], D[k][2][2]))}

(* C6: the holder of a single client's dict obtains the AEAD key of none of
   its ct2 and decrypts no element *)
C6_SingleDictOpensNothing ==
    self.scheme = "twoclient.Intersection" =>
        \A i \in DOMAIN ct_sets : HolderOpens(ct_sets[i]) = {}

---------------------------------------------------------------------------
(* Properties of the multi-client schemes *)

(* the elements common to all the clients' plaintext sets *)
CommonPlaintexts == {x \in MCPlaintexts : \A i \in DOMAIN pt_sets : x \in pt_sets[i]}

(* C4: for n >= 2 clients, eval over the n ciphertext sets of one setup and
   one gid returns the number of elements common to the n plaintext sets,
   in whatever order the ciphertext sets are listed *)
C4_MCCardinalityCorrect ==
    (self.scheme = "multiclient.Cardinality" /\ pc = "done" /\ self.client_count >= 2) =>
        result.value = Cardinality(CommonPlaintexts)

(* three clients listed out of client order, one common element, and an
   element held by two of the three clients only *)
C4_Witness ==
    /\ self.scheme = "multiclient.Cardinality"
    /\ pc = "done"
    /\ self.client_count = 3
    /\ result.order[0] # 0
    /\ result.order[2] # 2
    /\ Cardinality(CommonPlaintexts) = 1
    /\ \E x \in MCPlaintexts :
          Cardinality({i \in DOMAIN pt_sets : x \in pt_sets[i]}) = 2
    /\ result.value = 1

(* C7: for every client_count n >= 1, setup returns exactly n keys and
   their sum is 0 modulo the group order *)
C7_KeysSumToZero ==
    (self.scheme = "multiclient.Cardinality" /\ pc # "new") =>
        /\ DOMAIN usks = 0..(self.client_count - 1)
        /\ ListLen(usks) = self.client_count
        /\ FormSum(usks) = ZeroForm

(* the keys of three clients, drawn keys and the last one all non-zero *)
C7_Witness ==
    /\ self.scheme = "multiclient.Cardinality"
    /\ pc = "keyed"
    /\ self.client_count = 3
    /\ ListLen(usks) = 3
    /\ \A i \in DOMAIN usks : usks[i] # ZeroForm
    /\ FormSum(usks) = ZeroForm

(* the filter positions of the plaintext x under the clients' PRF key *)
FilterPositions(x) ==
    LET ct == MCEPrf(Cipher(usks[0][1], gid), x)
    IN  {BloomHash(hseed, self.m, self.k, i, CtBytes(ct)) : i \in 0..(self.k - 1)}

(* the positions set in the set filter of client i *)
SetFilterPositions(i) == UNION {FilterPositions(y) : y \in pt_sets[i]}

(* the first of the clients with the fewest elements *)
SmallestClient ==
    CHOOSE i \in DOMAIN pt_sets :
        \A j \in DOMAIN pt_sets :
            /\ Cardinality(pt_sets[i]) <= Cardinality(pt_sets[j])
            /\ j < i => Cardinality(pt_sets[i]) < Cardinality(pt_sets[j])

(* no element of the smallest set outside the intersection has all its
   filter positions set in every client's set filter *)
NoFalsePositive ==
    \A x \in pt_sets[SmallestClient] \ CommonPlaintexts :
        \E i \in DOMAIN pt_sets : ~(FilterPositions(x) \subseteq SetFilterPositions(i))

(* C5: with the keys of one setup(secpar, n, m, k) and the n ciphertexts
   listed in client order, eval returns the number of elements common to
   the n plaintext sets whenever no Bloom-filter false positive occurs *)
C5_MCECorrect ==
    (/\ self.scheme = "multiclient.CardinalityEfficient"
     /\ pc = "done"
     /\ result.client_count = self.client_count
     /\ NoFalsePositive) =>
        result.value = Cardinality(CommonPlaintexts)

(* the positions at which the element's bit meets the combined filter for
   the weight t: lhs == rhs in eval *)
MatchingPositions(ct_element, a_list, Delta, t) ==
    {ell \in 0..(self.m - 1) :
        GMul(GExp(ct_element[ell][1], FormConst(Delta)), a_list[ell])
            = GExp(ct_element[ell][2], FormConst(Delta * t))}

(* the position at which eval locks t for the element, and the t it
   locks: the first position with a match for some t in 1..k, and the
   largest such t; no pair when there is none *)
Locked(ct_element, a_list, Delta) ==
    LET hits == {<<ell, t>> \in (0..(self.m - 1)) \X (1..self.k) :
                    ell \in MatchingPositions(ct_element, a_list, Delta, t)}
    IN  {h \in hits : \A g \in hits : h[1] < g[1] \/ (h[1] = g[1] /\ h[2] >= g[2])}

(* C17: eval counts an element of the smallest set, once, exactly when
   the matching positions from the locking position on reach the locked t,
   for every t in 1..k *)
C17_CountingRule ==
    (/\ self.scheme = "multiclient.CardinalityEfficient"
     /\ pc = "done") =>
        LET smallest_set_index == MCESmallestFrom(ct_sets, 1, 0)
            gamma == smallest_set_index + 1
            S == MCEPoints(self, gamma)
            a_list == MCEAList(self, ct_sets, S)
            ct_elements == ct_sets[smallest_set_index][2]
            Delta == MCEDelta(S, self.client_count + gamma)
            reached(j) == \E h \in Locked(ct_elements[j], a_list, Delta) :
                Cardinality({ell \in MatchingPositions(ct_elements[j], a_list, Delta, h[2]) :
                                ell >= h[1]}) >= h[2]
        IN  result.value = Cardinality({j \in DOMAIN ct_elements : reached(j)})

(* the Lagrange combination at 0 of the key shares over the points
   1..n and n + gamma: f(j) is taken from the key of client j, f(n + gamma)
   from the key of client gamma *)
LagrangeAtZero(n, gamma) ==
    LET S == MCEPoints([client_count |-> n], gamma)
    IN  FormAdd(FormSum([j \in 0..(n - 1) |->
                            FormScale(usks[j][2], MCEDelta(S, j + 1))]),
                FormScale(usks[gamma - 1][3], MCEDelta(S, n + gamma)))

(* C8: setup(secpar, n, m, k) returns exactly n keys, n its client_count
   argument, usk_i = (phi_key, f(i), f(n + i)) for one polynomial f of
   degree <= n with f(0) = 0, and for every gamma in 1..n the Lagrange
   combination at 0 over the points 1..n and n + gamma is 0 mod q *)
C8_MCEKeyStructure ==
    (self.scheme = "multiclient.CardinalityEfficient" /\ result.op = "setup") =>
        LET n == result.client_count
            cs == MCECoefficients(n)
        IN  /\ ~IsError(result)
            /\ DOMAIN usks = 0..(n - 1)
            /\ cs[0] = ZeroForm
            /\ \A i \in 1..n :
                  usks[i - 1] = <<usks[0][1], MCEF(cs, i), MCEF(cs, n + i)>>
            /\ \A gamma \in 1..n : LagrangeAtZero(n, gamma) = ZeroForm

(* the tuples that take one element of each set of the list cts *)
TuplesOf(cts) == {t \in [DOMAIN cts -> UNION {cts[i] : i \in DOMAIN cts}] :
                    \A i \in DOMAIN cts : t[i] \in cts[i]}

RECURSIVE ProductFrom(_, _)
(* the product of the elements i, i + 1, ... of the tuple t *)
ProductFrom(t, i) ==
    IF i \notin DOMAIN t THEN GOne
    ELSE GMul(Deserialize(t[i]), ProductFrom(t, i + 1))

(* C16: on any sets of serialized group elements, for any number of sets,
   eval returns the number of tuples, one element of each set, whose
   product is the identity *)
C16_CountsIdentityTuples ==
    (self.scheme = "multiclient.Cardinality" /\ result.op = "eval"
        /\ "given" \in DOMAIN result) =>
        result.value = Cardinality({t \in TuplesOf(result.given) : ProductFrom(t, 0) = GOne})

(* C18: eval leaves the caller's list and every set in it as they were
   passed, and every counted match has removed an element of its own from
   the working copy of the set the recursion ends in *)
C18_EvalReadOnly ==
    (self.scheme = "multiclient.Cardinality" /\ result.op = "eval"
        /\ "given" \in DOMAIN result) =>
        /\ ct_sets = result.given
        /\ result.working[0] \subseteq result.given[0]
        /\ result.value <= Cardinality(result.given[0] \ result.working[0])

C18_Witness ==
    /\ self.scheme = "multiclient.Cardinality"
    /\ result.op = "eval"
    /\ "given" \in DOMAIN result
    /\ ListLen(result.given) = MaxClients
    /\ result.value >= 2
    /\ result.working # result.given
    /\ ct_sets = result.given

---------------------------------------------------------------------------
(* Properties of encrypt *)

(* a ciphertext up to the order of its elements: scheme 5 returns its
   element ciphertexts as a list in the order of the loop over pt_set *)
UpToOrder(ct) ==
    IF self.scheme = "multiclient.CardinalityEfficient"
    THEN <<ct[1], {ct[2][j] : j \in DOMAIN ct[2]}>>
    ELSE ct

(* C12: in schemes 1, 2, 4 and 5 a second encrypt call with the same usk,
   gid and set returns the ciphertext of the first, up to ordering, whatever
   the calls draw *)
C12_EncryptDeterministic ==
    result.op = "encrypt" =>
        UpToOrder(result.value) = UpToOrder(ct_sets[result.client])

(* C20: under one key and group identifier every PRF helper pads
   distinct plaintexts to distinct inputs and maps them to distinct
   outputs *)
C20_PrfInjective ==
    result.op \in PrfHelpers =>
        \A x, y \in pt_sets[0] :
            x # y => /\ result.padded[x] # result.padded[y]
                     /\ result.value[x] # result.value[y]

---------------------------------------------------------------------------
(* Properties of determine_parameters *)

(* C15: both determine_parameters return the same pair (m, k); it is
   (14378, 10) for 1000 elements and error rate 0.001; k is log2(1 / p)
   rounded, 2^(k - 1/2) <= 1 / p < 2^(k + 1/2), and m is n * log2(1 / p) /
   ln 2 rounded, which with 0.693 < ln 2 < 0.694 lies between
   n * (k - 1/2) / 0.694 - 1/2 and n * (k + 1/2) / 0.693 + 1/2 *)
C15_DetermineParameters ==
    self.scheme = "determine_parameters" =>
        \A c \in DOMAIN result.returned :
            LET n == self.max_elements
                d == self.error_rate[2]
                m == result.returned[c][1]
                k == result.returned[c][2]
            IN  /\ \A c2 \in DOMAIN result.returned : result.returned[c2] = <<m, k>>
                /\ (n = 1000 /\ d = 1000) => <<m, k>> = <<14378, 10>>
                /\ Pow(2, 2 * k - 1) <= d * d
                /\ d * d < Pow(2, 2 * k + 1)
                /\ 693 * m <= 1000 * n * k + 500 * n + 347
                /\ 694 * m >= 1000 * n * k - 500 * n - 347

C15_Witness ==
    /\ self.scheme = "determine_parameters"
    /\ self.max_elements = 1000
    /\ self.error_rate = <<1, 1000>>
    /\ DOMAIN result.returned = {"BloomFilter", "CardinalityEfficient"}
    /\ result.returned["BloomFilter"] = <<14378, 10>>

====
